---------------------------- MODULE Spec2Model ----------------------------
(***************************************************************************)
(* Model of scripts/generate_365_tool_drop_guide_pdf.py: the word wrapper  *)
(* (wrap_text), the per-page drawing log (PageCanvas), the paginating      *)
(* composer (GuideComposer) and the PDF serializer (build_pdf).            *)
(*                                                                         *)
(* Representation.  A Python str or bytes value is a sequence of character *)
(* codes (all text of the model is ASCII, so encode("utf-8") keeps one     *)
(* byte per character).  A float is an integer in the unit named at its    *)
(* definition: coordinates and leadings are whole points in the source,    *)
(* font sizes and stroke widths are kept in hundredths, colour components  *)
(* in thousandths, which are the precisions the f-strings print.           *)
(* PageCanvas.commands holds the arguments of each drawing call; the       *)
(* f-string of the call is applied when stream() is taken, which gives the *)
(* same bytes because the formatting is a function of the arguments alone. *)
(***************************************************************************)
EXTENDS Integers, Sequences, FiniteSets, TLC

VARIABLES
  w_text,     \* wrap_text: argument text
  w_width,    \* wrap_text: argument width (points)
  w_font,     \* wrap_text: argument font
  w_size,     \* wrap_text: argument size (hundredths of a point)
  w_lines,    \* wrap_text: the returned lines
  w_relines,  \* wrap_text applied again to " ".join(w_lines)
  w_pc,       \* position of the wrap_text caller
  pages,      \* GuideComposer.pages: one sequence of drawing commands per PageCanvas
  current,    \* GuideComposer.current: the PageCanvas it refers to, as its index in pages
  y,          \* GuideComposer.y
  page_num,   \* GuideComposer.page_num
  call,       \* the composer call executed last
  before,     \* the composer's fields when that call started
  ncalls,     \* number of composer calls made so far
  phase,      \* "off" | "composing" | "input" | "written"
  streams,    \* build_pdf: argument streams
  out         \* build_pdf: the bytearray written to destination

wrapVars == <<w_text, w_width, w_font, w_size, w_lines, w_relines, w_pc>>
composerVars == <<pages, current, y, page_num, call, before, ncalls>>
pdfVars == <<streams, out>>
vars == <<wrapVars, composerVars, phase, pdfVars>>

----------------------------------------------------------------------------
(* Bounds of the model *)

MaxWords == 3
MaxWordLen == 11
MaxCalls == 3
MaxStreams == 3
MaxBufLen == 10

----------------------------------------------------------------------------
(* Module constants of the source *)

PAGE_WIDTH == 612
PAGE_HEIGHT == 792
MARGIN == 54

----------------------------------------------------------------------------
(* Generic helpers on sequences of character codes *)

Max(a, b) == IF a >= b THEN a ELSE b

\* the sequence of n copies of c
Fill(c, n) == [i \in 1..n |-> c]

\* the concatenation ss[lo] \o ... \o ss[hi], halving the range
RECURSIVE ConcatRange(_, _, _)
ConcatRange(ss, lo, hi) ==
  IF lo > hi THEN <<>>
  ELSE IF lo = hi THEN ss[lo]
  ELSE LET mid == (lo + hi) \div 2
       IN  ConcatRange(ss, lo, mid) \o ConcatRange(ss, mid + 1, hi)

Concat(ss) == ConcatRange(ss, 1, Len(ss))

\* sep.join(ss)
Join(ss, sep) == Concat([i \in 1..Len(ss) |-> IF i = 1 THEN ss[i] ELSE sep \o ss[i]])

\* decimal digits of n >= 0, as printed by str(n) / f"{n}"
RECURSIVE Dec(_)
Dec(n) == IF n < 10 THEN <<48 + n>> ELSE Dec(n \div 10) \o <<48 + (n % 10)>>

\* f"{n:0{w}d}" for n >= 0: zero-padded on the left to at least w digits
ZeroPad(n, w) == LET d == Dec(n) IN Fill(48, w - Len(d)) \o d

\* f"{v:.2f}" of the float v = h / 100
Fmt2(h) ==
  LET a == IF h < 0 THEN -h ELSE h
  IN  (IF h < 0 THEN <<45>> ELSE <<>>) \o Dec(a \div 100) \o <<46>> \o ZeroPad(a % 100, 2)

\* f"{v:.3f}" of the float v = t / 1000, t >= 0
Fmt3(t) == Dec(t \div 1000) \o <<46>> \o ZeroPad(t % 1000, 3)

SP == <<32>>
NL == <<10>>

----------------------------------------------------------------------------
(* pdf_escape, estimate_char_width, wrap_text *)

\* s.replace(c, "\\" + c) for a one-character c: the string itself when c does not occur
Replace(t, c) ==
  IF \A i \in 1..Len(t) : t[i] # c THEN t
  ELSE Concat([i \in 1..Len(t) |-> IF t[i] = c THEN <<92, c>> ELSE <<t[i]>>])

\* the three replace calls in the order of the source: the backslash first, then each
\* parenthesis
pdf_escape(t) == Replace(Replace(Replace(t, 92), 40), 41)

\* the per-font factor, in hundredths
FontFactor(f) == IF f = "F2" THEN 56 ELSE IF f = "F3" THEN 60 ELSE 53

\* size * factor, in units of 1/10000 point (size100 is the size in hundredths)
estimate_char_width(f, size100) == size100 * FontFactor(f)

\* str.isspace for the ASCII range
IsSpace(c) == c \in {9, 10, 11, 12, 13, 28, 29, 30, 31, 32}

RECURSIVE LStrip(_)
LStrip(t) == IF t # <<>> /\ IsSpace(Head(t)) THEN LStrip(Tail(t)) ELSE t

RECURSIVE RStrip(_)
RStrip(t) ==
  IF t # <<>> /\ IsSpace(t[Len(t)]) THEN RStrip(SubSeq(t, 1, Len(t) - 1)) ELSE t

Strip(t) == RStrip(LStrip(t))

\* str.split(): the maximal runs of non-whitespace characters, in order
WordStarts(t) == {i \in 1..Len(t) : ~IsSpace(t[i]) /\ (i = 1 \/ IsSpace(t[i - 1]))}

WordEnds(t) == {i \in 1..Len(t) : ~IsSpace(t[i]) /\ (i = Len(t) \/ IsSpace(t[i + 1]))}

\* the k-th smallest element of the set of integers S
Nth(S, k) == CHOOSE s \in S : Cardinality({x \in S : x < s}) = k - 1

SplitAt(t, starts, ends) ==
  [k \in 1..Cardinality(starts) |-> SubSeq(t, Nth(starts, k), Nth(ends, k))]

Split(t) == SplitAt(t, WordStarts(t), WordEnds(t))

\* max(8, int(width / estimate_char_width(font, size))); the quotient is positive,
\* so int() is the floor
CharCapacity(wd, f, size100) == Max(8, (wd * 10000) \div estimate_char_width(f, size100))

\* WrapLoop with the joining space left out of the length that is compared
RECURSIVE WrapLoop_SpaceNotCounted(_, _, _, _, _)
WrapLoop_SpaceNotCounted(words, i, cur, lns, cap) ==
  IF i > Len(words) THEN Append(lns, cur)
  ELSE IF Len(cur) + Len(words[i]) <= cap
       THEN WrapLoop_SpaceNotCounted(words, i + 1, cur \o SP \o words[i], lns, cap)
       ELSE WrapLoop_SpaceNotCounted(words, i + 1, words[i], Append(lns, cur), cap)

\* WrapLoop without the lines.append(current) that follows the loop
RECURSIVE WrapLoop_LastLineNotFlushed(_, _, _, _, _)
WrapLoop_LastLineNotFlushed(words, i, cur, lns, cap) ==
  IF i > Len(words) THEN lns
  ELSE LET candidate == cur \o SP \o words[i]
       IN  IF Len(candidate) <= cap
           THEN WrapLoop_LastLineNotFlushed(words, i + 1, candidate, lns, cap)
           ELSE WrapLoop_LastLineNotFlushed(words, i + 1, words[i], Append(lns, cur), cap)

\* the for loop of wrap_text over words[i..], with the loop variables current and lines
RECURSIVE WrapLoop(_, _, _, _, _)
WrapLoop(words, i, cur, lns, cap) ==
  IF i > Len(words) THEN Append(lns, cur)
  ELSE LET candidate == cur \o SP \o words[i]
       IN  IF Len(candidate) <= cap
           THEN WrapLoop(words, i + 1, candidate, lns, cap)
           ELSE WrapLoop(words, i + 1, words[i], Append(lns, cur), cap)

wrap_text(t, wd, f, size100) ==
  LET words == Split(Strip(t))
  IN  IF words = <<>> THEN <<>>
      ELSE WrapLoop(words, 2, words[1], <<>>, CharCapacity(wd, f, size100))

----------------------------------------------------------------------------
(* BlockStyle and the styles of GuideComposer.__init__ *)

\* size in hundredths of a point, leading in points, color in thousandths
BlockStyle(f, size100, leading, color) ==
  [font |-> f, size |-> size100, leading |-> leading, color |-> color]

title_style == BlockStyle("F2", 2800, 32, <<1000, 1000, 1000>>)
h1_style == BlockStyle("F2", 1800, 24, <<80, 120, 170>>)
h2_style == BlockStyle("F2", 1300, 18, <<80, 120, 170>>)
body_style == BlockStyle("F1", 1100, 15, <<140, 170, 220>>)
small_style == BlockStyle("F1", 900, 12, <<280, 320, 380>>)
code_style == BlockStyle("F3", 950, 13, <<100, 130, 180>>)

----------------------------------------------------------------------------
(* PageCanvas: the three drawing calls and stream() *)

\* " rg "
S_rg ==
  <<32, 114, 103, 32>>

\* " re f"
S_re_f ==
  <<32, 114, 101, 32, 102>>

\* " RG "
S_RG ==
  <<32, 82, 71, 32>>

\* " w "
S_w ==
  <<32, 119, 32>>

\* " m "
S_m ==
  <<32, 109, 32>>

\* " l S"
S_l_S ==
  <<32, 108, 32, 83>>

\* "BT /"
S_BT ==
  <<66, 84, 32, 47>>

\* " Tf "
S_Tf ==
  <<32, 84, 102, 32>>

\* " rg 1 0 0 1 "
S_rg_Tm ==
  <<32, 114, 103, 32, 49, 32, 48, 32, 48, 32, 49, 32>>

\* " Tm ("
S_Tm ==
  <<32, 84, 109, 32, 40>>

\* ") Tj ET"
S_Tj_ET ==
  <<41, 32, 84, 106, 32, 69, 84>>

\* "365 Tool Drop"
T_brand ==
  <<51, 54, 53, 32, 84, 111, 111, 108, 32, 68, 114, 111, 112>>

\* "Song Analyzer - Getting Started"
T_sublabel ==
  <<83, 111, 110, 103, 32, 65, 110, 97, 108, 121, 122, 101, 114, 32, 45, 32, 71, 101, 116, 116, 105, 110, 103, 32, 83, 116, 97, 114, 116, 101, 100>>

\* "Page "
T_Page ==
  <<80, 97, 103, 101, 32>>

\* "365 TOOL DROP"
T_cover_badge ==
  <<51, 54, 53, 32, 84, 79, 79, 76, 32, 68, 82, 79, 80>>

\* "Song Analyzer"
T_cover_title1 ==
  <<83, 111, 110, 103, 32, 65, 110, 97, 108, 121, 122, 101, 114>>

\* "Getting Started Guide"
T_cover_title2 ==
  <<71, 101, 116, 116, 105, 110, 103, 32, 83, 116, 97, 114, 116, 101, 100, 32, 71, 117, 105, 100, 101>>

\* "Buyer-ready setup guide for your Gumroad delivery"
T_cover_subtitle ==
  <<66, 117, 121, 101, 114, 45, 114, 101, 97, 100, 121, 32, 115, 101, 116, 117, 112, 32, 103, 117, 105, 100, 101, 32, 102, 111, 114, 32, 121, 111, 117, 114, 32, 71, 117, 109, 114, 111, 97, 100, 32, 100, 101, 108, 105, 118, 101, 114, 121>>

\* "What this guide covers"
T_cover_panel ==
  <<87, 104, 97, 116, 32, 116, 104, 105, 115, 32, 103, 117, 105, 100, 101, 32, 99, 111, 118, 101, 114, 115>>

\* "- Local Whisper transcription setup"
T_cover_item1 ==
  <<45, 32, 76, 111, 99, 97, 108, 32, 87, 104, 105, 115, 112, 101, 114, 32, 116, 114, 97, 110, 115, 99, 114, 105, 112, 116, 105, 111, 110, 32, 115, 101, 116, 117, 112>>

\* "- New local mood/sentiment/themes engine"
T_cover_item2 ==
  <<45, 32, 78, 101, 119, 32, 108, 111, 99, 97, 108, 32, 109, 111, 111, 100, 47, 115, 101, 110, 116, 105, 109, 101, 110, 116, 47, 116, 104, 101, 109, 101, 115, 32, 101, 110, 103, 105, 110, 101>>

\* "- First file workflow in under 10 minutes"
T_cover_item3 ==
  <<45, 32, 70, 105, 114, 115, 116, 32, 102, 105, 108, 101, 32, 119, 111, 114, 107, 102, 108, 111, 119, 32, 105, 110, 32, 117, 110, 100, 101, 114, 32, 49, 48, 32, 109, 105, 110, 117, 116, 101, 115>>

\* "- Packaging notes for Gumroad buyers"
T_cover_item4 ==
  <<45, 32, 80, 97, 99, 107, 97, 103, 105, 110, 103, 32, 110, 111, 116, 101, 115, 32, 102, 111, 114, 32, 71, 117, 109, 114, 111, 97, 100, 32, 98, 117, 121, 101, 114, 115>>

\* "Version: 1.0    Date: "
T_cover_version ==
  <<86, 101, 114, 115, 105, 111, 110, 58, 32, 49, 46, 48, 32, 32, 32, 32, 68, 97, 116, 101, 58, 32>>

\* "Brand: 365 Tool Drop"
T_cover_brand ==
  <<66, 114, 97, 110, 100, 58, 32, 51, 54, 53, 32, 84, 111, 111, 108, 32, 68, 114, 111, 112>>

\* "-"
T_dash ==
  <<45>>

FontTag(f) == IF f = "F1" THEN <<70, 49>> ELSE IF f = "F2" THEN <<70, 50>> ELSE <<70, 51>>

\* What the drawing calls of PageCanvas append to commands.  A command is kept as the
\* arguments of its f-string; FormatCmd is the f-string, applied when the stream is read.

\* PageCanvas.rect_fill (x, y, w, h in points)
RectCmd(x, yy, w, h, rgb) == [op |-> "re", x |-> x, y |-> yy, w |-> w, h |-> h, rgb |-> rgb]

\* PageCanvas.line (width in hundredths)
LineCmd(x1, y1, x2, y2, rgb, width100) ==
  [op |-> "l", x |-> x1, y |-> y1, x2 |-> x2, y2 |-> y2, rgb |-> rgb, width |-> width100]

\* PageCanvas.text
TextCmd(x, yy, t, style) == [op |-> "Tj", x |-> x, y |-> yy, text |-> t, style |-> style]

Rgb(c) == Fmt3(c[1]) \o SP \o Fmt3(c[2]) \o SP \o Fmt3(c[3])

\* the f-string of each drawing call
FormatCmd(c) ==
  IF c.op = "re" THEN
    Rgb(c.rgb) \o S_rg \o Fmt2(100 * c.x) \o SP \o Fmt2(100 * c.y) \o SP
      \o Fmt2(100 * c.w) \o SP \o Fmt2(100 * c.h) \o S_re_f
  ELSE IF c.op = "l" THEN
    Rgb(c.rgb) \o S_RG \o Fmt2(c.width) \o S_w \o Fmt2(100 * c.x) \o SP \o Fmt2(100 * c.y)
      \o S_m \o Fmt2(100 * c.x2) \o SP \o Fmt2(100 * c.y2) \o S_l_S
  ELSE
    S_BT \o FontTag(c.style.font) \o SP \o Fmt2(c.style.size) \o S_Tf \o Rgb(c.style.color)
      \o S_rg_Tm \o Fmt2(100 * c.x) \o SP \o Fmt2(100 * c.y) \o S_Tm
      \o pdf_escape(c.text) \o S_Tj_ET

\* PageCanvas.stream: ("\n".join(self.commands) + "\n").encode("utf-8")
PageStream(cmds) == Join([i \in 1..Len(cmds) |-> FormatCmd(cmds[i])], NL) \o NL

----------------------------------------------------------------------------
(* GuideComposer.  Each method is an operator from the composer's fields   *)
(* [pages, current, y, page_num] to the fields after the call.             *)

\* self.current.<draw>(...): the command is appended to the canvas current refers to
Draw(self, cmd) == [self EXCEPT !.pages[self.current] = Append(@, cmd)]

GuideComposer_init ==
  [pages |-> << <<>> >>, current |-> 1, y |-> PAGE_HEIGHT - 96, page_num |-> 1]

_draw_page_chrome(self) ==
  LET s1 == Draw(self, RectCmd(0, PAGE_HEIGHT - 42, PAGE_WIDTH, 42, <<90, 150, 290>>))
      s2 == Draw(s1, TextCmd(MARGIN, PAGE_HEIGHT - 28, T_brand,
                             BlockStyle("F2", 1200, 14, <<1000, 1000, 1000>>)))
      s3 == Draw(s2, TextCmd(PAGE_WIDTH - 244, PAGE_HEIGHT - 28, T_sublabel,
                             BlockStyle("F1", 1000, 12, <<900, 940, 1000>>)))
      s4 == Draw(s3, LineCmd(MARGIN, 52, PAGE_WIDTH - MARGIN, 52, <<850, 880, 930>>, 80))
  IN  Draw(s4, TextCmd(PAGE_WIDTH - MARGIN - 40, 36, T_Page \o Dec(self.page_num),
                       BlockStyle("F1", 900, 12, <<350, 390, 460>>)))

\* new_page without self.page_num += 1
new_page_CounterNotAdvanced(self) ==
  _draw_page_chrome([pages |-> Append(self.pages, <<>>),
                     current |-> Len(self.pages) + 1,
                     page_num |-> self.page_num,
                     y |-> PAGE_HEIGHT - 84])

new_page(self) ==
  _draw_page_chrome([pages |-> Append(self.pages, <<>>),
                     current |-> Len(self.pages) + 1,
                     page_num |-> self.page_num + 1,
                     y |-> PAGE_HEIGHT - 84])

ensure_space(self, needed) == IF self.y - needed < 72 THEN new_page(self) ELSE self

add_h1(self, t) ==
  LET s1 == ensure_space(self, h1_style.leading + 8)
      s2 == Draw(s1, TextCmd(MARGIN, s1.y, t, h1_style))
  IN  [s2 EXCEPT !.y = @ - (h1_style.leading + 2)]

add_h2(self, t) ==
  LET s1 == ensure_space(self, h2_style.leading + 6)
      s2 == Draw(s1, TextCmd(MARGIN, s1.y, t, h2_style))
  IN  [s2 EXCEPT !.y = @ - h2_style.leading]

\* the for loop of add_paragraph over lines[i..]
RECURSIVE ParagraphLoop(_, _, _, _)
ParagraphLoop(self, lns, i, style) ==
  IF i > Len(lns) THEN self
  ELSE LET s1 == Draw(self, TextCmd(MARGIN, self.y, lns[i], style))
       IN  ParagraphLoop([s1 EXCEPT !.y = @ - style.leading], lns, i + 1, style)

\* add_paragraph with the space check made line by line inside the loop
RECURSIVE ParagraphLoop_PerLine(_, _, _, _)
ParagraphLoop_PerLine(self, lns, i, style) ==
  IF i > Len(lns) THEN self
  ELSE LET s0 == ensure_space(self, style.leading)
           s1 == Draw(s0, TextCmd(MARGIN, s0.y, lns[i], style))
       IN  ParagraphLoop_PerLine([s1 EXCEPT !.y = @ - style.leading], lns, i + 1, style)

add_paragraph_PerLine(self, t, style) ==
  LET lns == wrap_text(t, PAGE_WIDTH - (2 * MARGIN), style.font, style.size)
      s2 == ParagraphLoop_PerLine(self, lns, 1, style)
  IN  [s2 EXCEPT !.y = @ - 4]

add_paragraph(self, t, style) ==
  LET lns == wrap_text(t, PAGE_WIDTH - (2 * MARGIN), style.font, style.size)
      needed == Max(style.leading, Len(lns) * style.leading + 4)
      s1 == ensure_space(self, needed)
      s2 == ParagraphLoop(s1, lns, 1, style)
  IN  [s2 EXCEPT !.y = @ - 4]

\* the for loop of add_bullet over enumerate(lines)[i..]
RECURSIVE BulletLoop(_, _, _)
BulletLoop(self, lns, i) ==
  IF i > Len(lns) THEN self
  ELSE LET s1 == Draw(self, TextCmd(MARGIN + 14, self.y, lns[i], body_style))
       IN  BulletLoop(IF i < Len(lns) THEN [s1 EXCEPT !.y = @ - body_style.leading] ELSE s1,
                      lns, i + 1)

add_bullet(self, t) ==
  LET bullet_width == PAGE_WIDTH - (2 * MARGIN) - 18
      lns == wrap_text(t, bullet_width, body_style.font, body_style.size)
      needed == Max(body_style.leading, Len(lns) * body_style.leading + 2)
      s1 == ensure_space(self, needed)
      s2 == Draw(s1, TextCmd(MARGIN, s1.y, T_dash, body_style))
      s3 == BulletLoop(s2, lns, 1)
  IN  [s3 EXCEPT !.y = @ - body_style.leading]

\* wrap_text of one input line of a code block
CodeWrap(ln) == wrap_text(ln, PAGE_WIDTH - (2 * MARGIN) - 16, code_style.font, code_style.size)

\* the nested for loops of add_code_block: input lines[i..], sublines wrapped[j..] of
\* lines[i], with the local y_cursor; returns the composer and y_cursor
RECURSIVE CodeLoop(_, _, _, _, _)
CodeLoop(self, lns, i, j, y_cursor) ==
  IF i > Len(lns) THEN self
  ELSE LET wrapped == CodeWrap(lns[i])
       IN  IF j > Len(wrapped) THEN CodeLoop(self, lns, i + 1, 1, y_cursor)
           ELSE CodeLoop(Draw(self, TextCmd(MARGIN + 8, y_cursor, wrapped[j], code_style)),
                         lns, i, j + 1, y_cursor - code_style.leading)

add_code_block(self, lns) ==
  LET pad == 8
      block_height == pad * 2 + Len(lns) * code_style.leading
      s1 == ensure_space(self, block_height + 8)
      y_bottom == s1.y - block_height + 10
      s2 == Draw(s1, RectCmd(MARGIN, y_bottom, PAGE_WIDTH - (2 * MARGIN), block_height,
                             <<930, 950, 980>>))
      s3 == CodeLoop(s2, lns, 1, 1, s1.y - pad)
  IN  [s3 EXCEPT !.y = y_bottom - 10]

add_spacer(self, amount) == [self EXCEPT !.y = @ - amount]

\* today is date.today().isoformat()
add_cover_page(self, today) ==
  LET cmds == <<
        RectCmd(0, 0, PAGE_WIDTH, PAGE_HEIGHT, <<970, 980, 1000>>),
        RectCmd(0, PAGE_HEIGHT - 280, PAGE_WIDTH, 280, <<90, 150, 290>>),
        RectCmd(54, PAGE_HEIGHT - 258, 188, 26, <<970, 640, 170>>),
        TextCmd(68, PAGE_HEIGHT - 240, T_cover_badge, BlockStyle("F2", 1200, 14, <<90, 150, 290>>)),
        TextCmd(54, PAGE_HEIGHT - 332, T_cover_title1, title_style),
        TextCmd(54, PAGE_HEIGHT - 366, T_cover_title2, title_style),
        TextCmd(54, PAGE_HEIGHT - 412, T_cover_subtitle,
                BlockStyle("F1", 1400, 18, <<870, 920, 1000>>)),
        RectCmd(54, 204, PAGE_WIDTH - 108, 140, <<1000, 1000, 1000>>),
        LineCmd(54, 344, PAGE_WIDTH - 54, 344, <<830, 870, 940>>, 100),
        TextCmd(72, 316, T_cover_panel, BlockStyle("F2", 1300, 16, <<110, 150, 220>>)),
        TextCmd(72, 292, T_cover_item1, body_style),
        TextCmd(72, 274, T_cover_item2, body_style),
        TextCmd(72, 256, T_cover_item3, body_style),
        TextCmd(72, 238, T_cover_item4, body_style),
        TextCmd(54, 120, T_cover_version \o today, small_style),
        TextCmd(54, 102, T_cover_brand, BlockStyle("F2", 1000, 12, <<150, 200, 330>>)) >>
  IN  [self EXCEPT !.pages[self.current] = @ \o cmds]

\* GuideComposer.streams
Streams(self) == [i \in 1..Len(self.pages) |-> PageStream(self.pages[i])]

----------------------------------------------------------------------------
(* build_pdf *)

\* "<< /Type /Font /Subtype /Type1 /BaseFont /Helvetica >>"
font_regular ==
  <<60, 60, 32, 47, 84, 121, 112, 101, 32, 47, 70, 111, 110, 116, 32, 47, 83, 117, 98, 116, 121, 112, 101, 32, 47, 84, 121, 112, 101, 49, 32, 47, 66, 97, 115, 101, 70, 111, 110, 116, 32, 47, 72, 101, 108, 118, 101, 116, 105, 99, 97, 32, 62, 62>>

\* "<< /Type /Font /Subtype /Type1 /BaseFont /Helvetica-Bold >>"
font_bold ==
  <<60, 60, 32, 47, 84, 121, 112, 101, 32, 47, 70, 111, 110, 116, 32, 47, 83, 117, 98, 116, 121, 112, 101, 32, 47, 84, 121, 112, 101, 49, 32, 47, 66, 97, 115, 101, 70, 111, 110, 116, 32, 47, 72, 101, 108, 118, 101, 116, 105, 99, 97, 45, 66, 111, 108, 100, 32, 62, 62>>

\* "<< /Type /Font /Subtype /Type1 /BaseFont /Courier >>"
font_code ==
  <<60, 60, 32, 47, 84, 121, 112, 101, 32, 47, 70, 111, 110, 116, 32, 47, 83, 117, 98, 116, 121, 112, 101, 32, 47, 84, 121, 112, 101, 49, 32, 47, 66, 97, 115, 101, 70, 111, 110, 116, 32, 47, 67, 111, 117, 114, 105, 101, 114, 32, 62, 62>>

\* "<< /Length "
P_Length ==
  <<60, 60, 32, 47, 76, 101, 110, 103, 116, 104, 32>>

\* " >>\nstream\n"
P_stream ==
  <<32, 62, 62, 10, 115, 116, 114, 101, 97, 109, 10>>

\* "endstream"
P_endstream ==
  <<101, 110, 100, 115, 116, 114, 101, 97, 109>>

\* "<< /Type /Page /Parent "
P_Page ==
  <<60, 60, 32, 47, 84, 121, 112, 101, 32, 47, 80, 97, 103, 101, 32, 47, 80, 97, 114, 101, 110, 116, 32>>

\* " 0 R /MediaBox [0 0 "
P_MediaBox ==
  <<32, 48, 32, 82, 32, 47, 77, 101, 100, 105, 97, 66, 111, 120, 32, 91, 48, 32, 48, 32>>

\* "] /Resources << /Font << /F1 1 0 R /F2 2 0 R /F3 3 0 R >> >> /Contents "
P_Resources ==
  <<93, 32, 47, 82, 101, 115, 111, 117, 114, 99, 101, 115, 32, 60, 60, 32, 47, 70, 111, 110, 116, 32, 60, 60, 32, 47, 70, 49, 32, 49, 32, 48, 32, 82, 32, 47, 70, 50, 32, 50, 32, 48, 32, 82, 32, 47, 70, 51, 32, 51, 32, 48, 32, 82, 32, 62, 62, 32, 62, 62, 32, 47, 67, 111, 110, 116, 101, 110, 116, 115, 32>>

\* " 0 R >>"
P_R_close ==
  <<32, 48, 32, 82, 32, 62, 62>>

\* " 0 R"
P_R ==
  <<32, 48, 32, 82>>

\* "<< /Type /Pages /Kids ["
P_Pages ==
  <<60, 60, 32, 47, 84, 121, 112, 101, 32, 47, 80, 97, 103, 101, 115, 32, 47, 75, 105, 100, 115, 32, 91>>

\* "] /Count "
P_Count ==
  <<93, 32, 47, 67, 111, 117, 110, 116, 32>>

\* " >>"
P_close ==
  <<32, 62, 62>>

\* "<< /Type /Catalog /Pages "
P_Catalog ==
  <<60, 60, 32, 47, 84, 121, 112, 101, 32, 47, 67, 97, 116, 97, 108, 111, 103, 32, 47, 80, 97, 103, 101, 115, 32>>

\* " 0 obj\n"
P_obj ==
  <<32, 48, 32, 111, 98, 106, 10>>

\* "\nendobj\n"
P_endobj ==
  <<10, 101, 110, 100, 111, 98, 106, 10>>

\* "xref\n0 "
P_xref ==
  <<120, 114, 101, 102, 10, 48, 32>>

\* "0000000000 65535 f \n"
P_free ==
  <<48, 48, 48, 48, 48, 48, 48, 48, 48, 48, 32, 54, 53, 53, 51, 53, 32, 102, 32, 10>>

\* " 00000 n \n"
P_inuse ==
  <<32, 48, 48, 48, 48, 48, 32, 110, 32, 10>>

\* "trailer\n<< /Size "
P_trailer ==
  <<116, 114, 97, 105, 108, 101, 114, 10, 60, 60, 32, 47, 83, 105, 122, 101, 32>>

\* " /Root "
P_Root ==
  <<32, 47, 82, 111, 111, 116, 32>>

\* " 0 R >>\nstartxref\n"
P_startxref ==
  <<32, 48, 32, 82, 32, 62, 62, 10, 115, 116, 97, 114, 116, 120, 114, 101, 102, 10>>

\* "\n%%EOF\n"
P_EOF ==
  <<10, 37, 37, 69, 79, 70, 10>>

\* b"%PDF-1.4\n%\xe2\xe3\xcf\xd3\n"
P_header ==
  <<37, 80, 68, 70, 45, 49, 46, 52, 10, 37, 226, 227, 207, 211, 10>>

first_content_obj == 4
first_page_obj(n_pages) == first_content_obj + n_pages
pages_obj(n_pages) == first_page_obj(n_pages) + n_pages
catalog_obj(n_pages) == pages_obj(n_pages) + 1
total_objs(n_pages) == catalog_obj(n_pages)

\* stream_obj of one content buffer
stream_obj(content) == P_Length \o Dec(Len(content)) \o P_stream \o content \o P_endstream

\* page_dict with /Contents one object too far
page_dict_NextContent(n_pages, idx) ==
  P_Page \o Dec(pages_obj(n_pages)) \o P_MediaBox \o Dec(PAGE_WIDTH) \o SP \o Dec(PAGE_HEIGHT)
    \o P_Resources \o Dec(first_content_obj + idx + 1) \o P_R_close

\* page_dict of the page with index idx (0-based, as in the source)
page_dict(n_pages, idx) ==
  P_Page \o Dec(pages_obj(n_pages)) \o P_MediaBox \o Dec(PAGE_WIDTH) \o SP \o Dec(PAGE_HEIGHT)
    \o P_Resources \o Dec(first_content_obj + idx) \o P_R_close

\* page_ids after the second for loop
page_ids(n_pages) == [i \in 1..n_pages |-> first_page_obj(n_pages) + (i - 1)]

\* " ".join(f"{pid} 0 R" for pid in page_ids)
kids(ids) == Join([i \in 1..Len(ids) |-> Dec(ids[i]) \o P_R], SP)

pages_tree(n_pages) ==
  P_Pages \o kids(page_ids(n_pages)) \o P_Count \o Dec(n_pages) \o P_close

catalog(n_pages) == P_Catalog \o Dec(pages_obj(n_pages)) \o P_R_close

\* Objects with the catalog and the pages tree in each other's slot
Objects_CatalogBeforeTree(strs) ==
  LET n == Len(strs)
  IN  [k \in 1..total_objs(n) |->
         IF k = 1 THEN font_regular
         ELSE IF k = 2 THEN font_bold
         ELSE IF k = 3 THEN font_code
         ELSE IF k = catalog_obj(n) THEN pages_tree(n)
         ELSE IF k = pages_obj(n) THEN catalog(n)
         ELSE IF k >= first_page_obj(n) THEN page_dict(n, k - first_page_obj(n))
         ELSE stream_obj(strs[k - first_content_obj + 1])]

\* the list objects after all its slots are assigned (slot k holds object id k)
Objects(strs) ==
  LET n == Len(strs)
  IN  [k \in 1..total_objs(n) |->
         IF k = 1 THEN font_regular
         ELSE IF k = 2 THEN font_bold
         ELSE IF k = 3 THEN font_code
         ELSE IF k = catalog_obj(n) THEN catalog(n)
         ELSE IF k = pages_obj(n) THEN pages_tree(n)
         ELSE IF k >= first_page_obj(n) THEN page_dict(n, k - first_page_obj(n))
         ELSE stream_obj(strs[k - first_content_obj + 1])]

\* one object as written by the body of the third for loop
ObjectBytes(obj_id, obj) == Dec(obj_id) \o P_obj \o obj \o P_endobj

\* WriteObjects with len(out) taken after the object's header is written
RECURSIVE WriteObjects_OffsetAfterHeader(_, _, _, _)
WriteObjects_OffsetAfterHeader(objects, obj_id, buf, offsets) ==
  IF obj_id > Len(objects) THEN [out |-> buf, offsets |-> offsets]
  ELSE WriteObjects_OffsetAfterHeader(
         objects, obj_id + 1, buf \o ObjectBytes(obj_id, objects[obj_id]),
         Append(offsets, Len(buf \o Dec(obj_id) \o P_obj)))

\* the third for loop from obj_id on: the bytearray out and the list offsets
RECURSIVE WriteObjects(_, _, _, _)
WriteObjects(objects, obj_id, buf, offsets) ==
  IF obj_id > Len(objects) THEN [out |-> buf, offsets |-> offsets]
  ELSE WriteObjects(objects, obj_id + 1, buf \o ObjectBytes(obj_id, objects[obj_id]),
                    Append(offsets, Len(buf)))

\* f"{off:010d} 00000 n \n"
XrefEntry(off) == ZeroPad(off, 10) \o P_inuse

\* the fourth for loop: one entry for each of offsets[1:]
XrefEntries(offsets) == Concat([i \in 1..(Len(offsets) - 1) |-> XrefEntry(offsets[i + 1])])

\* the bytes build_pdf writes to destination
build_pdf(strs) ==
  LET n == Len(strs)
      w == WriteObjects(Objects(strs), 1, P_header, <<0>>)
      xref_start == Len(w.out)
  IN  w.out \o P_xref \o Dec(total_objs(n) + 1) \o NL \o P_free \o XrefEntries(w.offsets)
        \o P_trailer \o Dec(total_objs(n) + 1) \o P_Root \o Dec(catalog_obj(n))
        \o P_startxref \o Dec(xref_start) \o P_EOF

----------------------------------------------------------------------------
(* Inputs *)

\* all sequences over S of length 0..n
SeqsUpTo(S, n) == UNION {[1..k -> S] : k \in 0..n}

\* wrap_text: texts of up to MaxWords words, separated and padded by whitespace
Words == {Fill(c, n) : c \in {97, 98}, n \in {1, 4, MaxWordLen}}
Separators == {<<32>>, <<32, 10>>}
Pads == {<<>>, <<32>>}
WrapTexts ==
  {pad \o Join(ws, sep) \o pad : ws \in SeqsUpTo(Words, MaxWords), sep \in Separators, pad \in Pads}
WrapWidths == {40, 70}
WrapFonts == {<<"F1", 1100>>, <<"F2", 1300>>, <<"F3", 950>>}

\* composer: the texts the calls are made with
EmptyText == <<>>
\* "ab (c)"
ShortText == <<97, 98, 32, 40, 99, 41>>
\* four words of 43 letters: no two of them fit one line of the body, bullet or code width
LongText == Join([i \in 1..4 |-> Fill(97, 43)], SP)
HeadingTexts == {ShortText}
ParagraphInputs == {<<EmptyText, small_style>>, <<LongText, body_style>>}
BulletTexts == {EmptyText, LongText}
CodeBlocks == {<<ShortText, ShortText, ShortText>>, <<LongText>>}
SpacerAmounts == {580}
\* "2026-11-05"
Dates == {<<50, 48, 50, 54, 45, 49, 49, 45, 48, 53>>}

\* build_pdf: content buffers of newlines or of the letter A
Buffers == {Fill(b, n) : b \in {10, 65}, n \in {0, 1, MaxBufLen - 1, MaxBufLen}}
StreamInputs == SeqsUpTo(Buffers, MaxStreams)

----------------------------------------------------------------------------
(* State machine *)

Self == [pages |-> pages, current |-> current, y |-> y, page_num |-> page_num]

NoCall == [op |-> "none"]

ComposerFresh ==
  /\ pages = GuideComposer_init.pages
  /\ current = GuideComposer_init.current
  /\ y = GuideComposer_init.y
  /\ page_num = GuideComposer_init.page_num
  /\ call = NoCall
  /\ before = Self
  /\ ncalls = 0

WrapIdle ==
  /\ w_text = <<>> /\ w_width = 0 /\ w_font = "F1" /\ w_size = 0
  /\ w_lines = <<>> /\ w_relines = <<>> /\ w_pc = "idle"

\* --- wrap_text called on an arbitrary text, then on its own joined output
InitWrap ==
  /\ w_text \in WrapTexts
  /\ w_width \in WrapWidths
  /\ \E fs \in WrapFonts : w_font = fs[1] /\ w_size = fs[2]
  /\ w_lines = <<>> /\ w_relines = <<>> /\ w_pc = "input"
  /\ ComposerFresh /\ phase = "off" /\ streams = <<>> /\ out = <<>>

Wrap ==
  /\ w_pc = "input"
  /\ w_lines' = wrap_text(w_text, w_width, w_font, w_size)
  /\ w_pc' = "wrapped"
  /\ UNCHANGED <<w_text, w_width, w_font, w_size, w_relines, composerVars, phase, pdfVars>>

Rewrap ==
  /\ w_pc = "wrapped"
  /\ w_relines' = wrap_text(Join(w_lines, SP), w_width, w_font, w_size)
  /\ w_pc' = "rewrapped"
  /\ UNCHANGED <<w_text, w_width, w_font, w_size, w_lines, composerVars, phase, pdfVars>>

NextWrap == Wrap \/ Rewrap

SpecWrap == InitWrap /\ [][NextWrap]_vars

\* --- a GuideComposer driven by any sequence of calls, then serialized as main does
InitComposer ==
  /\ ComposerFresh /\ phase = "composing" /\ streams = <<>> /\ out = <<>> /\ WrapIdle

Step(r, c) ==
  /\ phase = "composing"
  /\ ncalls < MaxCalls
  /\ pages' = r.pages
  /\ current' = r.current
  /\ y' = r.y
  /\ page_num' = r.page_num
  /\ call' = c
  /\ before' = Self
  /\ ncalls' = ncalls + 1
  /\ UNCHANGED <<phase, wrapVars, pdfVars>>

NewPage == Step(new_page(Self), [op |-> "new_page"])

AddH1 == \E t \in HeadingTexts : Step(add_h1(Self, t), [op |-> "add_h1", text |-> t])

AddH2 == \E t \in HeadingTexts : Step(add_h2(Self, t), [op |-> "add_h2", text |-> t])

AddParagraph ==
  \E p \in ParagraphInputs :
    Step(add_paragraph(Self, p[1], p[2]), [op |-> "add_paragraph", text |-> p[1], style |-> p[2]])

AddBullet == \E t \in BulletTexts : Step(add_bullet(Self, t), [op |-> "add_bullet", text |-> t])

AddCodeBlock ==
  \E ls \in CodeBlocks : Step(add_code_block(Self, ls), [op |-> "add_code_block", lines |-> ls])

AddSpacer ==
  \E a \in SpacerAmounts : Step(add_spacer(Self, a), [op |-> "add_spacer", amount |-> a])

AddCoverPage ==
  \E d \in Dates : Step(add_cover_page(Self, d), [op |-> "add_cover_page", today |-> d])

\* main: build_pdf(composer.streams(), output)
Main ==
  /\ phase = "composing"
  /\ streams' = Streams(Self)
  /\ out' = build_pdf(streams')
  /\ phase' = "written"
  /\ call' = [op |-> "main"]
  /\ UNCHANGED <<wrapVars, pages, current, y, page_num, before, ncalls>>

NextComposer ==
  \/ NewPage \/ AddH1 \/ AddH2 \/ AddParagraph \/ AddBullet \/ AddCodeBlock
  \/ AddSpacer \/ AddCoverPage \/ Main

SpecComposer == InitComposer /\ [][NextComposer]_vars

\* --- build_pdf called on an arbitrary list of content buffers
InitPdf ==
  /\ streams \in StreamInputs /\ out = <<>> /\ phase = "input" /\ ComposerFresh /\ WrapIdle

BuildPdf ==
  /\ phase = "input"
  /\ out' = build_pdf(streams)
  /\ phase' = "written"
  /\ UNCHANGED <<wrapVars, composerVars, streams>>

NextPdf == BuildPdf

SpecPdf == InitPdf /\ [][NextPdf]_vars

----------------------------------------------------------------------------
(* Reading a PDF file back.  A byte position p is 0-based, as in the file: *)
(* the byte at position p is buf[p + 1].                                   *)

\* "startxref\n"
R_startxref ==
  <<115, 116, 97, 114, 116, 120, 114, 101, 102, 10>>

\* "\n%%EOF\n"
R_EOF ==
  <<10, 37, 37, 69, 79, 70, 10>>

\* "xref\n0 "
R_xref ==
  <<120, 114, 101, 102, 10, 48, 32>>

\* " 00000 n \n"
R_inuse ==
  <<32, 48, 48, 48, 48, 48, 32, 110, 32, 10>>

\* "trailer\n<< /Size "
R_trailer ==
  <<116, 114, 97, 105, 108, 101, 114, 10, 60, 60, 32, 47, 83, 105, 122, 101, 32>>

\* " /Root "
R_Root ==
  <<32, 47, 82, 111, 111, 116, 32>>

\* " 0 R"
R_ref ==
  <<32, 48, 32, 82>>

\* " 0 obj\n"
R_obj ==
  <<32, 48, 32, 111, 98, 106, 10>>

\* "\nendobj\n"
R_endobj ==
  <<10, 101, 110, 100, 111, 98, 106, 10>>

\* "<< /Length "
R_Length ==
  <<60, 60, 32, 47, 76, 101, 110, 103, 116, 104, 32>>

\* " >>\nstream\n"
R_stream ==
  <<32, 62, 62, 10, 115, 116, 114, 101, 97, 109, 10>>

\* "endstream"
R_endstream ==
  <<101, 110, 100, 115, 116, 114, 101, 97, 109>>

\* "<< /Type /Font "
R_TypeFont ==
  <<60, 60, 32, 47, 84, 121, 112, 101, 32, 47, 70, 111, 110, 116, 32>>

\* "<< /Type /Page "
R_TypePage ==
  <<60, 60, 32, 47, 84, 121, 112, 101, 32, 47, 80, 97, 103, 101, 32>>

\* "<< /Type /Pages "
R_TypePages ==
  <<60, 60, 32, 47, 84, 121, 112, 101, 32, 47, 80, 97, 103, 101, 115, 32>>

\* "<< /Type /Catalog "
R_TypeCatalog ==
  <<60, 60, 32, 47, 84, 121, 112, 101, 32, 47, 67, 97, 116, 97, 108, 111, 103, 32>>

\* "/BaseFont /Helvetica >>"
R_Helvetica ==
  <<47, 66, 97, 115, 101, 70, 111, 110, 116, 32, 47, 72, 101, 108, 118, 101, 116, 105, 99, 97, 32, 62, 62>>

\* "/BaseFont /Helvetica-Bold >>"
R_HelveticaBold ==
  <<47, 66, 97, 115, 101, 70, 111, 110, 116, 32, 47, 72, 101, 108, 118, 101, 116, 105, 99, 97, 45, 66, 111, 108, 100, 32, 62, 62>>

\* "/BaseFont /Courier >>"
R_Courier ==
  <<47, 66, 97, 115, 101, 70, 111, 110, 116, 32, 47, 67, 111, 117, 114, 105, 101, 114, 32, 62, 62>>

\* "/Parent "
R_Parent ==
  <<47, 80, 97, 114, 101, 110, 116, 32>>

\* "/Contents "
R_Contents ==
  <<47, 67, 111, 110, 116, 101, 110, 116, 115, 32>>

\* "/Pages "
R_Pages ==
  <<47, 80, 97, 103, 101, 115, 32>>

\* "/Kids ["
R_Kids ==
  <<47, 75, 105, 100, 115, 32, 91>>

\* "] /Count "
R_Count ==
  <<93, 32, 47, 67, 111, 117, 110, 116, 32>>

\* "0"
R_zero ==
  <<48>>

\* "R"
R_R ==
  <<82>>

\* "Page "
R_PageLabel ==
  <<80, 97, 103, 101, 32>>

\* pat occurs in buf at position p (positions count from 0)
HasAt(buf, p, pat) ==
  p >= 0 /\ p + Len(pat) <= Len(buf) /\ SubSeq(buf, p + 1, p + Len(pat)) = pat

StartsWith(buf, pat) == HasAt(buf, 0, pat)

EndsWith(buf, pat) == HasAt(buf, Len(buf) - Len(pat), pat)

IsDigit(c) == c \in 48..57

RECURSIVE Val(_)
Val(ds) == IF ds = <<>> THEN 0 ELSE 10 * Val(SubSeq(ds, 1, Len(ds) - 1)) + (ds[Len(ds)] - 48)

\* the position just past the run of digits that starts at p (p itself when there is none)
DigitsEnd(buf, p) ==
  IF p < 0 \/ p > Len(buf) THEN p
  ELSE CHOOSE e \in p..Len(buf) :
         /\ (e = Len(buf) \/ ~IsDigit(buf[e + 1]))
         /\ \A j \in (p + 1)..e : IsDigit(buf[j])

\* the number written at p, -1 when no digit is there
NumTo(buf, p, d) == IF d > p THEN Val(SubSeq(buf, p + 1, d)) ELSE -1

NumAt(buf, p) == NumTo(buf, p, DigitsEnd(buf, p))

\* the smallest and the largest element of a non-empty set of integers
FirstIn(S) == CHOOSE s \in S : \A x \in S : s <= x

LastIn(S) == CHOOSE s \in S : \A x \in S : x <= s

\* the positions at which the non-empty pat occurs in buf
Occurrences(buf, pat) ==
  {p \in 0..(Len(buf) - Len(pat)) : buf[p + 1] = pat[1] /\ HasAt(buf, p, pat)}

\* the number that follows the first occurrence of key in the dictionary text, -1 if none
KeyNumIn(body, key, ps) == IF ps = {} THEN -1 ELSE NumAt(body, FirstIn(ps) + Len(key))

KeyNum(body, key) == KeyNumIn(body, key, Occurrences(body, key))

\* the positions at which a line starts
LineStarts(buf) == {p \in 0..(Len(buf) - 1) : p = 0 \/ buf[p] = 10}

\* the positions at which an object header "<id> 0 obj" starts a line
ObjHeaders(buf) ==
  {p \in LineStarts(buf) : DigitsEnd(buf, p) > p /\ HasAt(buf, DigitsEnd(buf, p), R_obj)}

\* the value after "startxref" in the tail of the file, -1 when it is missing
TailNum(buf, p, d) ==
  IF HasAt(buf, d, R_EOF) /\ d + Len(R_EOF) = Len(buf) THEN NumTo(buf, p, d) ELSE -1

TailNumAt(buf, p) == TailNum(buf, p, DigitsEnd(buf, p))

TailIn(buf, tail) == IF tail = {} THEN -1 ELSE TailNumAt(buf, LastIn(tail) + Len(R_startxref))

StartXref(buf) ==
  TailIn(buf, {p \in Max(0, Len(buf) - 40)..(Len(buf) - 1) :
                 buf[p + 1] = R_startxref[1] /\ HasAt(buf, p, R_startxref)})

\* the cross-reference section the tail points to: its position, the number of entries
\* its "xref" line announces (-1 when the section is not there) and the position of its
\* first entry
XrefAt(buf, sx) ==
  [start |-> sx,
   size |-> IF HasAt(buf, sx, R_xref) THEN NumAt(buf, sx + Len(R_xref)) ELSE -1,
   first |-> DigitsEnd(buf, sx + Len(R_xref)) + 1]

ReadXref(buf) == XrefAt(buf, StartXref(buf))

\* the position of the entry of object k: the entries are 20 bytes each
XrefEntryPos(x, k) == x.first + 20 * k

\* the offset in the in-use entry of object k, -1 when the entry is not an in-use entry
XrefOffset(buf, x, k) ==
  LET e == XrefEntryPos(x, k)
  IN  IF DigitsEnd(buf, e) = e + 10 /\ HasAt(buf, e + 10, R_inuse)
      THEN NumTo(buf, e, e + 10) ELSE -1

\* the trailer that follows the entries: its /Size and /Root, -1 when malformed
TrailerSize(buf, x) ==
  LET t == XrefEntryPos(x, x.size)
  IN  IF x.size >= 0 /\ HasAt(buf, t, R_trailer) THEN NumAt(buf, t + Len(R_trailer)) ELSE -1

TrailerRoot(buf, x) ==
  LET p == DigitsEnd(buf, XrefEntryPos(x, x.size) + Len(R_trailer))
  IN  IF TrailerSize(buf, x) >= 0 /\ HasAt(buf, p, R_Root)
         /\ HasAt(buf, DigitsEnd(buf, p + Len(R_Root)), R_ref)
      THEN NumAt(buf, p + Len(R_Root)) ELSE -1

\* whether the header of object k starts at p
ObjHeaderAt(buf, p, k) ==
  p >= 0 /\ p < Len(buf) /\ (p = 0 \/ buf[p] = 10) /\ HasAt(buf, p, Dec(k) \o R_obj)

\* the text of the object that starts at p and ends before position q: what lies between
\* its header and its "endobj" line; <<>> when that is not the shape of buf[p..q)
ObjBodyFrom(buf, p, q, d) ==
  LET a == d + Len(R_obj)
      b == q - Len(R_endobj)
  IN  IF p >= 0 /\ d > p /\ HasAt(buf, d, R_obj) /\ a <= b /\ HasAt(buf, b, R_endobj)
      THEN SubSeq(buf, a + 1, b) ELSE <<>>

ObjBody(buf, p, q) == ObjBodyFrom(buf, p, q, DigitsEnd(buf, p))

\* the object k, found through the cross-reference section x
ObjectAt(buf, x, k, p) ==
  IF k < 1 \/ k >= x.size \/ ~ObjHeaderAt(buf, p, k) THEN <<>>
  ELSE ObjBody(buf, p, IF k + 1 < x.size THEN XrefOffset(buf, x, k + 1) ELSE x.start)

ObjectOf(buf, x, k) == ObjectAt(buf, x, k, XrefOffset(buf, x, k))

\* the bytes of a stream object between "stream\n" and its closing "endstream", and the
\* number it declares as /Length; Declared is -1 when the object is not of that shape
StreamDeclared(body) == IF StartsWith(body, R_Length) THEN NumAt(body, Len(R_Length)) ELSE -1

StreamDataFrom(body, d) ==
  LET a == d + Len(R_stream)
      b == Len(body) - Len(R_endstream)
  IN  IF StreamDeclared(body) >= 0 /\ HasAt(body, d, R_stream)
         /\ a <= b /\ EndsWith(body, R_endstream)
      THEN [ok |-> TRUE, data |-> SubSeq(body, a + 1, b)]
      ELSE [ok |-> FALSE, data |-> <<>>]

StreamData(body) == StreamDataFrom(body, DigitsEnd(body, Len(R_Length)))

\* the object numbers of the /Kids array of a pages-tree dictionary, in order;
\* <<-1>> when the array is not a list of "<n> 0 R"
KidsFrom(toks) ==
  IF Len(toks) % 3 = 0
     /\ \A i \in 1..Len(toks) :
          IF i % 3 = 1 THEN \A j \in 1..Len(toks[i]) : IsDigit(toks[i][j])
          ELSE IF i % 3 = 2 THEN toks[i] = R_zero ELSE toks[i] = R_R
  THEN [i \in 1..(Len(toks) \div 3) |-> Val(toks[3 * i - 2])]
  ELSE <<-1>>

KidsBetween(body, a, b) ==
  IF a = {} \/ b = {} THEN <<-1>>
  ELSE IF FirstIn(a) + Len(R_Kids) > FirstIn(b) THEN <<-1>>
  ELSE KidsFrom(Split(SubSeq(body, FirstIn(a) + Len(R_Kids) + 1, FirstIn(b))))

KidsOf(body) == KidsBetween(body, Occurrences(body, R_Kids), Occurrences(body, R_Count))

\* the references "<n> 0 R" of a dictionary text: the position of each and its number
RefsOf(body) == {<<p, NumAt(body, p)>> : p \in {q \in 0..Len(body) :
                    DigitsEnd(body, q) > q /\ (q = 0 \/ ~IsDigit(body[q]))
                    /\ HasAt(body, DigitsEnd(body, q), R_ref)}}

----------------------------------------------------------------------------
(* Properties of build_pdf *)

Written == phase = "written"

\* C1: for every list of N content buffers the output has no accounting mismatch: the
\* cross-reference section has one in-use entry for each object id k in 1..2N+5, the
\* offset in the k-th entry is the one byte position at which the header "k 0 obj" starts,
\* and for every content object the number declared as /Length is the number of bytes
\* between "stream\n" and "endstream" (which are the bytes of its buffer).
C1_XrefAndLengthExact ==
  Written =>
    LET n == Len(streams)
        headers == ObjHeaders(out)
        x == ReadXref(out)
    IN  /\ x.size = 2 * n + 6
        /\ \A k \in 1..(2 * n + 5) :
             {p \in headers : NumAt(out, p) = k} = {XrefOffset(out, x, k)}
        /\ \A i \in 1..n :
             LET body == ObjectOf(out, x, 3 + i)
             IN  /\ StreamData(body).ok
                 /\ StreamDeclared(body) = Len(StreamData(body).data)
                 /\ StreamData(body).data = streams[i]

\* C1 witness: a written file of three buffers, one of them empty and one of ten bytes or
\* more, so that object ids and a declared length of two digits occur.
C1_Witness ==
  /\ Written
  /\ Len(streams) = 3
  /\ \E i, j \in 1..3 : Len(streams[i]) = 0 /\ Len(streams[j]) >= 10
  /\ XrefOffset(out, ReadXref(out), 11) > 0

\* the text of the k-th object in file order, hs being the header positions: from one
\* header to the next (the last one to the "xref" line)
NthObject(buf, hs, k) ==
  ObjBody(buf, Nth(hs, k), IF k < Cardinality(hs) THEN Nth(hs, k + 1) ELSE StartXref(buf))

\* C3: build_pdf emits exactly 2N+5 objects, numbered 1, 2, ... in the order written:
\* 1..3 the fonts Helvetica, Helvetica-Bold and Courier, 4..N+3 the content object of each
\* buffer in order, N+4..2N+3 the page dictionary of each page in order, 2N+4 the pages
\* tree, 2N+5 the catalog; and a reference to a higher-numbered object occurs only as the
\* /Parent of a page dictionary, naming the pages tree.
C3_ObjectNumbering ==
  Written =>
    LET n == Len(streams)
        hs == ObjHeaders(out)
    IN  /\ Cardinality(hs) = 2 * n + 5
        /\ \A k \in 1..Cardinality(hs) :
             LET obj == NthObject(out, hs, k)
             IN  /\ NumAt(out, Nth(hs, k)) = k
                 /\ k = 1 => StartsWith(obj, R_TypeFont) /\ EndsWith(obj, R_Helvetica)
                 /\ k = 2 => StartsWith(obj, R_TypeFont) /\ EndsWith(obj, R_HelveticaBold)
                 /\ k = 3 => StartsWith(obj, R_TypeFont) /\ EndsWith(obj, R_Courier)
                 /\ k \in 4..(n + 3) =>
                      StreamData(obj).ok /\ StreamData(obj).data = streams[k - 3]
                 /\ k \in (n + 4)..(2 * n + 3) =>
                      StartsWith(obj, R_TypePage) /\ KeyNum(obj, R_Contents) = k - n
                 /\ k = 2 * n + 4 => StartsWith(obj, R_TypePages)
                 /\ k = 2 * n + 5 => StartsWith(obj, R_TypeCatalog)
                 \* (a content object is a stream of arbitrary bytes, not a dictionary)
                 /\ k \notin 4..(n + 3) =>
                      \A r \in RefsOf(obj) :
                        r[2] > k =>
                          /\ k \in (n + 4)..(2 * n + 3)
                          /\ r[2] = 2 * n + 4
                          /\ HasAt(obj, r[1] - Len(R_Parent), R_Parent)

\* C3 witness: a written file of three buffers, whose page dictionaries (objects 7..9)
\* refer forward to the pages tree (object 10).
C3_Witness ==
  /\ Written /\ Len(streams) = 3
  /\ Cardinality(ObjHeaders(out)) = 9 + 2
  /\ KeyNum(NthObject(out, ObjHeaders(out), 7), R_Parent) = 10

\* the stream object obj holds exactly the bytes of buffer
HoldsBuffer(sd, buffer) == sd.ok /\ sd.data = buffer

\* page is a page dictionary whose /Parent is the pages tree and whose /Contents is the
\* i-th content object, which holds buffer
PageMatches(buf, x, tree_id, page, i, buffer) ==
  /\ StartsWith(page, R_TypePage)
  /\ KeyNum(page, R_Parent) = tree_id
  /\ KeyNum(page, R_Contents) = 3 + i
  /\ HoldsBuffer(StreamData(ObjectOf(buf, x, 3 + i)), buffer)

\* tree is the pages tree: its /Kids are distinct page dictionaries, one for each buffer
\* in order, and its /Count is their number
TreeMatches(buf, x, tree_id, tree, kid_ids, buffers) ==
  /\ StartsWith(tree, R_TypePages)
  /\ Len(kid_ids) = Len(buffers)
  /\ KeyNum(tree, R_Count) = Len(buffers)
  /\ \A i \in 1..Len(buffers) :
       /\ \A j \in 1..Len(buffers) : (kid_ids[j] = kid_ids[i]) => j = i
       /\ PageMatches(buf, x, tree_id, ObjectOf(buf, x, kid_ids[i]), i, buffers[i])

\* root is the catalog and its /Pages is the pages tree
RootMatches(buf, x, root, tree, buffers) ==
  /\ StartsWith(root, R_TypeCatalog)
  /\ TreeMatches(buf, x, KeyNum(root, R_Pages), tree, KidsOf(tree), buffers)

\* the file read from its tail: the trailer's /Size is the size of the cross-reference
\* section and its /Root leads to the catalog, the pages tree and the pages
FileMatches(buf, x, root, buffers) ==
  /\ TrailerSize(buf, x) = x.size
  /\ RootMatches(buf, x, root, ObjectOf(buf, x, KeyNum(root, R_Pages)), buffers)

TailMatches(buf, x, buffers) ==
  FileMatches(buf, x, ObjectOf(buf, x, TrailerRoot(buf, x)), buffers)

\* C8: after any sequence of composer calls that leaves N pages, the trailer's /Root is
\* the catalog, the catalog's /Pages is the pages tree, the tree's /Kids are N page
\* dictionaries in page order and its /Count is N, and the i-th page dictionary has the
\* pages tree as /Parent and as /Contents the i-th content object, which holds the buffer
\* main took from the i-th page.
C8_PageTreeMatchesPages ==
  Written =>
    /\ Len(streams) = Len(pages)
    /\ TailMatches(out, ReadXref(out), streams)

\* C8 witness: the file written for a first page followed by three body pages, each body
\* page with its own drawing commands: 4 kids and /Count 4.
C8_Witness ==
  /\ Written /\ ncalls > 0
  /\ Len(pages) = 4
  /\ LET x == ReadXref(out)
     IN  Len(KidsOf(ObjectOf(out, x, KeyNum(ObjectOf(out, x, TrailerRoot(out, x)), R_Pages)))) = 4
  /\ \A i \in 2..4 : pages[i] # <<>>

----------------------------------------------------------------------------
(* Properties of wrap_text *)

\* the capacity as the specification gives it: max(8, floor(width / charWidth)), with
\* charWidth = size * 0.56 (bold), 0.60 (monospace) or 0.53 (regular)
SpecCapacity(wd, f, size100) ==
  LET factor == CASE f = "F2" -> 56 [] f = "F3" -> 60 [] OTHER -> 53
  IN  Max(8, (wd * 10000) \div (size100 * factor))

\* the words of all lines, in order
WordsOfLines(lns) == Concat([i \in 1..Len(lns) |-> Split(lns[i])])

\* C5: every line wrap_text returns is at most capacity characters long, except a line
\* that is exactly one input word longer than capacity; and the words of the returned
\* lines, in order, are exactly the whitespace-separated words of the input.
C5_WrapLinesFitAndKeepWords ==
  w_pc \in {"wrapped", "rewrapped"} =>
    LET cap == SpecCapacity(w_width, w_font, w_size)
        words == Split(w_text)
    IN  /\ \A i \in 1..Len(w_lines) :
             \/ Len(w_lines[i]) <= cap
             \/ \E k \in 1..Len(words) : w_lines[i] = words[k] /\ Len(words[k]) > cap
        /\ \A i \in 1..Len(w_lines) : w_lines[i] # <<>> /\ Join(Split(w_lines[i]), SP) = w_lines[i]
        /\ WordsOfLines(w_lines) = words

\* C5 witness: a wrap that returned a line of several words, a line made of one word
\* longer than the capacity, and more than one line.
C5_Witness ==
  /\ w_pc = "wrapped"
  /\ Len(w_lines) >= 2
  /\ \E i \in 1..Len(w_lines) : Len(Split(w_lines[i])) >= 2
  /\ \E i \in 1..Len(w_lines) : Len(w_lines[i]) > SpecCapacity(w_width, w_font, w_size)

\* C9: wrapping the space-joined output of wrap_text again, with the same width, font and
\* size, returns the same lines.
C9_RewrapIdempotent == w_pc = "rewrapped" => w_relines = w_lines

\* C9 witness: a re-wrap of several lines whose joined text is not the text first given.
C9_Witness ==
  /\ w_pc = "rewrapped"
  /\ Len(w_lines) >= 2
  /\ Join(w_lines, SP) # w_text
  /\ \E i \in 1..Len(w_lines) : Len(Split(w_lines[i])) >= 2

----------------------------------------------------------------------------
(* Properties of GuideComposer *)

\* the chrome commands new_page draws on the page with number n
Chrome(n) == _draw_page_chrome([pages |-> << <<>> >>, current |-> 1, y |-> 0, page_num |-> n]).pages[1]

\* the last call started a page
Grew == Len(pages) > Len(before.pages)

\* the commands the last call appended to the current page; on a page the call started,
\* the commands after the chrome
BlockCmds ==
  LET cmds == pages[current]
      from == IF Grew THEN Len(Chrome(page_num)) ELSE Len(before.pages[before.current])
  IN  SubSeq(cmds, from + 1, Len(cmds))

IsText(c) == c.op = "Tj"

\* the lowest vertical position a command draws at
LowY(c) == IF c.op = "l" THEN (IF c.y2 < c.y THEN c.y2 ELSE c.y) ELSE c.y

\* the footer rule and the "Page N" label of new_page
IsFooterRule(c) == c.op = "l" /\ c.y = 52 /\ c.y2 = 52
IsPageLabel(c) ==
  /\ c.op = "Tj" /\ c.x = PAGE_WIDTH - MARGIN - 40 /\ c.y = 36
  /\ StartsWith(c.text, R_PageLabel)

FlowOps == {"add_h1", "add_h2", "add_paragraph", "add_bullet", "add_code_block", "add_spacer"}

\* C2: no draw operation is placed below the bottom threshold of 72, except the footer
\* rule and the "Page N" label.  Stated here for the commands of the paginated flow (the
\* heading, paragraph, bullet, code block and spacer calls); the fixed layout that
\* add_cover_page draws, whose background starts at 0, is left aside in the claim's favour.
C2_NoFlowDrawBelowThreshold ==
  call.op \in FlowOps =>
    \A i \in 1..Len(BlockCmds) : LowY(BlockCmds[i]) >= 72

\* the wrapped lines of the paragraph the last call drew
ParagraphLines == wrap_text(call.text, PAGE_WIDTH - 2 * MARGIN, call.style.font, call.style.size)

\* the vertical space a paragraph takes: its lines and the trailing gap, one line at least
ParagraphNeed == Max(call.style.leading, Len(ParagraphLines) * call.style.leading + 4)

\* C4: a paragraph never splits across a page break: the text runs of one add_paragraph
\* call are all on one page, one run for each wrapped line; when the paragraph needs more
\* space than remains above the threshold the call starts exactly one page, draws that
\* page's chrome before any line, and draws nothing on the page it started from.
C4_ParagraphNeverSplits ==
  call.op = "add_paragraph" =>
    /\ Len(pages) \in {Len(before.pages), Len(before.pages) + 1}
    /\ \A i \in 1..Len(before.pages) :
         (i # before.current \/ Grew) => pages[i] = before.pages[i]
    /\ Grew => /\ current = Len(pages)
               /\ SubSeq(pages[current], 1, Len(Chrome(page_num))) = Chrome(page_num)
    /\ ~Grew => /\ current = before.current
                /\ SubSeq(pages[current], 1, Len(before.pages[current])) = before.pages[current]
    /\ Len(BlockCmds) = Len(ParagraphLines)
    /\ \A i \in 1..Len(BlockCmds) : IsText(BlockCmds[i]) /\ BlockCmds[i].text = ParagraphLines[i]
    /\ (before.y - ParagraphNeed < 72) => Grew

\* C4 witness: a paragraph of several lines that did not fit under the cursor and was
\* drawn on a page of its own.
C4_Witness ==
  /\ call.op = "add_paragraph"
  /\ Len(ParagraphLines) >= 2
  /\ before.y - Len(ParagraphLines) * call.style.leading < 72
  /\ before.y >= 72
  /\ before.pages[before.current] # <<>>
  /\ Grew

\* the number of lines wrap_text returns for all input lines of a code block together
RECURSIVE SumLen(_)
SumLen(ss) == IF ss = <<>> THEN 0 ELSE Len(Head(ss)) + SumLen(Tail(ss))
WrappedCount(lns) == SumLen([i \in 1..Len(lns) |-> CodeWrap(lns[i])])

\* C6: the background rectangle of a code block is sized to the total wrapped line count:
\* its height is 2 * padding + (total wrapped lines) * code line height, the block has that
\* many text runs, each of them inside the rectangle, and the cursor ends below them all.
C6_CodeBlockSizedToWrappedLines ==
  call.op = "add_code_block" =>
    LET total == WrappedCount(call.lines)
        rect == BlockCmds[1]
        runs == SubSeq(BlockCmds, 2, Len(BlockCmds))
    IN  /\ Len(BlockCmds) >= 1
        /\ rect.op = "re"
        /\ rect.h = 2 * 8 + total * code_style.leading
        /\ Len(runs) = total
        /\ \A i \in 1..Len(runs) :
             /\ IsText(runs[i])
             /\ rect.y <= runs[i].y /\ runs[i].y <= rect.y + rect.h
             /\ y < runs[i].y

\* the lines wrap_text returns for the text of the block the last call drew
BlockLines ==
  IF call.op = "add_paragraph" THEN ParagraphLines
  ELSE IF call.op = "add_bullet"
  THEN wrap_text(call.text, PAGE_WIDTH - 2 * MARGIN - 18, body_style.font, body_style.size)
  ELSE Concat([i \in 1..Len(call.lines) |-> CodeWrap(call.lines[i])])

\* C7: wrap_text returns no line for an empty or whitespace-only text, and a block whose
\* wrap yields no line appends no draw operation for the block (no bullet dash, no code
\* background rectangle).
C7_NoHeaderWithoutLines ==
  call.op \in {"add_paragraph", "add_bullet", "add_code_block"} =>
    /\ (call.op # "add_code_block" /\ \A i \in 1..Len(call.text) : IsSpace(call.text[i]))
         => BlockLines = <<>>
    /\ BlockLines = <<>> => BlockCmds = <<>>

\* the "Page N" labels on a page
PageLabels(cmds) == {i \in 1..Len(cmds) : IsPageLabel(cmds[i])}

IsPrefix(s, t) == Len(s) <= Len(t) /\ SubSeq(t, 1, Len(s)) = s

\* C10: the page counter equals the number of pages, the current page is the last page,
\* a call adds at most one page and removes or reorders none (every page there before the
\* call is still at its place, with at most commands added), the first page has no
\* "Page N" label and the page at position N >= 2 has exactly one, reading "Page N".
C10_PageNumberingConsistent ==
  /\ page_num = Len(pages)
  /\ current = Len(pages)
  /\ Len(pages) \in {Len(before.pages), Len(before.pages) + 1}
  /\ \A i \in 1..Len(before.pages) : IsPrefix(before.pages[i], pages[i])
  /\ PageLabels(pages[1]) = {}
  /\ \A n \in 2..Len(pages) :
       /\ Cardinality(PageLabels(pages[n])) = 1
       /\ \A i \in PageLabels(pages[n]) : pages[n][i].text = R_PageLabel \o Dec(n)

\* C10 witness: three pages, the last of them started by the space check of a block call
\* and not by a new_page call.
C10_Witness ==
  /\ Len(pages) = 3
  /\ page_num = 3
  /\ call.op \in {"add_h1", "add_h2", "add_paragraph", "add_bullet", "add_code_block"}
  /\ Grew
  /\ Cardinality(PageLabels(pages[3])) = 1

=============================================================================
